---- MODULE Spec2Model ----
(***************************************************************************)
(* Model of the Duet in-application programmer (src/src/iap.cpp): the      *)
(* writeBinary state machine, its two block sources (SD-card file, raw or  *)
(* UF2, and the SBC SPI link), the flash primitives it drives and Reset.   *)
(*                                                                         *)
(* Geometry is scaled.  One flash cell of the model stands for one UF2     *)
(* payload (256 bytes); a page is two cells, a transfer block two pages.   *)
(* Two builds are modelled, selected by the variable chip:                 *)
(*   "SAM4E"  per-page unlock/lock, sectors of varying size (the SAM4S and *)
(*            SAME70 builds have the same shape with other sector sizes);  *)
(*   "SAME5x" bulk unlock/lock, uniform erase regions.                     *)
(* The build without ErasingFlash (none of SAM4E, SAM4S, SAME70, SAME5x)   *)
(* is left out: checkLed (lines 89-98) uses lastLedMillis and ledIsOn,     *)
(* which lines 37-57 declare only for those four chips.                    *)
(***************************************************************************)
EXTENDS Integers, Sequences, FiniteSets, TLC

\* ------------------------------------------------------------ geometry
pageSize == 2
blockReadSize == 4
\* a UF2 record carries one cell of payload and takes two cells of file
Uf2Payload == 1
Uf2RecordSize == 2 * Uf2Payload
maxRetries == 2
IFLASH_ADDR == 0
\* SAM4E sector layout: two small sectors, one middle sector, then large ones
SmallSector == 2
MidSector == 4
LargeSector == 8
\* SAME5x: uniform erase regions, lock regions, and a bootloader below the firmware
EraseRegionSize == 2 * pageSize
LockRegionSize == 4 * pageSize
BootloaderSize == 2 * pageSize
\* capacity of the firmware region, in large sectors after the first three sectors
LargeSectors == 1
Capacity == 2 * SmallSector + MidSector + LargeSectors * LargeSector
\* length of the diagnostic text Reset writes (strlen(formatBuffer))
MsgLen == 1
Erased == 255
OldByte == 90
MsgByte == 69

Chips == {"SAM4E", "SAME5x"}

Bytes == 0..255
\* the magic words of a UF2 record, and a word that is none of them
MagicStart0Val == "0x0A324655"
MagicStart1Val == "0x9E5D5157"
MagicEndVal == "0x0AB16F30"
BadMagic == "0x00000000"

VARIABLES
    chip,               \* the build: which #if branches are compiled
    viaSpi,             \* IAP_VIA_SPI
    isUf2File,
    file,               \* the firmware file on the card: [size, bytes, recs]
    hostBlocks,         \* how many blocks of image the SBC sends in one pass
    firmwareFileSize,
    phase,              \* "open" before openBinary, "run" in the main loop, "halt" after Reset
    state,
    flashPos,
    retry,
    bytesRead,
    bytesWritten,
    haveDataInBuffer,
    readData,
    reportNextPercent,
    formatBuffer,
    transferPending,
    dataReceived,
    spiEnabled,         \* the SPI peripheral and its DMA channels are armed
    xferLen,            \* bytesToTransfer of the armed transfer
    elapsed,            \* millis() - transferStartTime, in ticks, capped
    writeData0,         \* writeData[0]
    verifyRequest,      \* readData seen as a FlashVerifyRequest
    hostSent,           \* blocks the SBC has sent in this pass
    flash,              \* contents of [FirmwareFlashStart, FirmwareFlashEnd)
    unlocked,           \* addresses of the pages whose lock bit is clear
    bootFromBootloader, \* GPNVM bit 1 cleared
    resetKind,          \* "none", "success", "fatal", "trap"
    persisted,          \* the text Reset wrote to the start of the region, <<>> if none
    lastOps,            \* hardware and file operations of the last step, in order
    edges,              \* every assignment state = X made so far, as <<old, X>>
    hwFailed,           \* some hardware or file operation has failed so far
    crcSeen,            \* the last checksum comparison: <<computed, reported>>, <<>> if none
    stepResult,         \* the step the last call attempted: "ok", "failed", or "none"
    failStreak,         \* how many times in a row the current step has failed
    passPages,          \* pages written and verified since WritingUpgrade was last entered
    percentSeen,        \* percentDone of the last call of ShowProgress, 0 before the first
    progressMsgs,       \* the value of reportNextPercent at each progress message, in order
    lastWrite,          \* the page write of the last step: "none", "fail", "differs" or "ok"
    sbcGone,            \* <<>> while the SBC is there, else what held when it left:
                        \* <<state, a block was written, the checksum record had arrived>>
    crcBuffer,          \* argument of a call of CRC16 on its own
    crcResult,          \* what that call returned, -1 before it
    setupPc,            \* where the main code is inside setup_spi: "idle" outside it,
                        \* "flags" before line 353, "ready" before line 357
    nssr,               \* SPI_SR_NSSR: NSS has risen since the status was last read
    nssrIrq,            \* SPI_IER_NSSR: the end-of-transfer interrupt is enabled
    transferReadyHigh,
    handlerSet          \* SBC_SPI_HANDLER has set dataReceived since the SPI was armed

conf == <<chip, viaSpi, isUf2File, file, hostBlocks>>
prog == <<firmwareFileSize, phase, state, flashPos, retry, bytesRead, bytesWritten,
          haveDataInBuffer, readData, reportNextPercent, formatBuffer>>
spi == <<transferPending, dataReceived, spiEnabled, xferLen, elapsed, writeData0,
         verifyRequest, hostSent>>
hw == <<flash, unlocked, bootFromBootloader, resetKind, persisted>>
wlog == <<percentSeen, progressMsgs, lastWrite>>
hist == <<lastOps, edges, hwFailed, crcSeen, stepResult, failStreak, passPages, wlog>>
crcIO == <<crcBuffer, crcResult>>
irq == <<setupPc, nssr, nssrIrq, transferReadyHigh, handlerSet>>
vars == <<conf, prog, spi, hw, hist, sbcGone, crcIO, irq>>

FirmwareFlashStart == IF chip = "SAME5x" THEN IFLASH_ADDR + BootloaderSize ELSE IFLASH_ADDR
FirmwareFlashEnd == FirmwareFlashStart + Capacity
Region == FirmwareFlashStart .. (FirmwareFlashEnd - 1)

States == <<"Initializing", "UnlockingFlash", "ErasingFlash", "WritingUpgrade",
            "VerifyingChecksum", "SendingChecksumOK", "SendingChecksumError", "LockingFlash">>
StateNo(s) == CHOOSE i \in 1..Len(States) : States[i] = s

Min(a, b) == IF a < b THEN a ELSE b
Op(o, a, n) == [op |-> o, addr |-> a, len |-> n]
\* the page addresses a range [a, a+n) touches
PagesOf(a, n) == { p \in (a - pageSize + 1) .. (a + n - 1) : p % pageSize = 0 /\ p >= 0 }

\* a & b, bit by bit; BitAnd computes its operands once, then combines them
RECURSIVE AndBits(_, _)
AndBits(a, b) ==
    IF a = 0 \/ b = 0 THEN 0
    ELSE (a % 2) * (b % 2) + 2 * AndBits(a \div 2, b \div 2)
BitAnd(a, b) == CHOOSE r \in { AndBits(x, y) : x \in {a}, y \in {b} } : TRUE

\* ------------------------------------------------------------ flash hardware
\* Programming a NOR flash cell without erasing it first can only clear bits
\* (flash_write is called with its erase flag 0, Flash::Write takes none).
FlashProgram(old, data) == BitAnd(old, data)

\* the flash after programming the cells of data at addr; cells outside the
\* firmware region are not part of the model's flash
FlashWritten(f, addr, data) ==
    [a \in DOMAIN f |->
        IF a >= addr /\ a < addr + Len(data)
        THEN FlashProgram(f[a], data[a - addr + 1])
        ELSE f[a]]

FlashErased(f, addr, n) ==
    [a \in DOMAIN f |-> IF a >= addr /\ a < addr + n THEN Erased ELSE f[a]]

\* a read of flash; outside the firmware region lies other code, never erased
FlashAt(f, a) == IF a \in DOMAIN f THEN f[a] ELSE OldByte

\* a variant that takes every sector for erased
AlwaysErased(f, addr, sectorSize) == TRUE
\* IsSectorErased, lines 604-615
IsSectorErased(f, addr, sectorSize) ==
    \A p \in addr .. (addr + sectorSize - 1) : FlashAt(f, p) = Erased

\* sector size at the cursor, as ErasingFlash computes it
SectorSizeAt(pos) ==
    IF chip = "SAME5x" THEN EraseRegionSize
    ELSE IF pos - IFLASH_ADDR < 2 * SmallSector THEN SmallSector
    ELSE IF pos - IFLASH_ADDR = 2 * SmallSector THEN MidSector
    ELSE LargeSector

\* the hardware sector an address lies in, as <<first address, size>>
HwSector(a) ==
    LET off == a - IFLASH_ADDR
        big == 2 * SmallSector + MidSector
    IN  IF chip = "SAME5x" THEN <<a, EraseRegionSize>>
        ELSE IF off < 2 * SmallSector THEN <<a - (off % SmallSector), SmallSector>>
        ELSE IF off < big THEN <<IFLASH_ADDR + 2 * SmallSector, MidSector>>
        ELSE <<a - ((off - big) % LargeSector), LargeSector>>

InRegion(a, n) == a >= FirmwareFlashStart /\ a + n <= FirmwareFlashEnd

\* ------------------------------------------------------------ messages
Msg(text, args) == <<text>> \o args

\* ------------------------------------------------------------ initial state
\* flash as the old firmware left it: k = 0 nothing erased, 1 all erased,
\* 2 the first half erased, 3 erased but for the last cell
InitFlash(k) ==
    [a \in Region |->
        CASE k = 0 -> OldByte
          [] k = 1 -> Erased
          [] k = 2 -> IF 2 * (a - FirmwareFlashStart) < Capacity THEN Erased ELSE OldByte
          [] OTHER -> IF a = FirmwareFlashEnd - 1 THEN OldByte ELSE Erased]

\* contents of a firmware image: pattern 1 has no erased-looking cell, pattern 2
\* has one in every third place
ImageByte(pat, i) == IF pat = 2 /\ i % 3 = 0 THEN Erased ELSE i
RawFile(len, pat) ==
    [size |-> len, bytes |-> [i \in 1..len |-> ImageByte(pat, i)], recs |-> <<>>]
NoFile == [size |-> 0, bytes |-> <<>>, recs |-> <<>>]

\* record k (from 1) of a UF2 image, damaged in the way kind says
Uf2Kinds == {"magicStart0", "magicStart1", "magicEnd", "targetAddr", "payloadSize"}
Uf2Rec(k, kind) ==
    [magicStart0 |-> IF kind = "magicStart0" THEN BadMagic ELSE MagicStart0Val,
     magicStart1 |-> IF kind = "magicStart1" THEN BadMagic ELSE MagicStart1Val,
     magicEnd |-> IF kind = "magicEnd" THEN BadMagic ELSE MagicEndVal,
     targetAddr |-> FirmwareFlashStart + (k - 1) * Uf2Payload
                      + (IF kind = "targetAddr" THEN Uf2Payload ELSE 0),
     payloadSize |-> IF kind = "payloadSize" THEN Uf2Payload + 1 ELSE Uf2Payload,
     data |-> [i \in 1..Uf2Payload |-> ImageByte(1, (k - 1) * Uf2Payload + i)]]
Uf2File(size, bad, kind) ==
    [size |-> size, bytes |-> <<>>,
     recs |-> [k \in 1..(size \div Uf2RecordSize) |->
                 Uf2Rec(k, IF k = bad THEN kind ELSE "none")]]
\* the UF2 files the card can hold: sound ones of every size up to one cell
\* too many (odd sizes end inside a record), and ones with a damaged record
MaxBadRec == 3
Uf2Files ==
    { Uf2File(size, 0, "none") : size \in 0..(2 * Capacity + 1) }
    \cup { Uf2File(2 * Capacity, bad, kind) : bad \in 1..MaxBadRec, kind \in Uf2Kinds }

MaxHostBlocks == 2
\* the files the card can hold: raw images of every length up to one cell too
\* many, in both patterns
Files == { RawFile(len, pat) : len \in 0..(Capacity + 1), pat \in 1..2 }

ProgInit ==
    /\ chip \in Chips
    /\ viaSpi \in BOOLEAN
    /\ isUf2File \in (IF viaSpi THEN {FALSE} ELSE BOOLEAN)
    /\ file \in (IF viaSpi THEN {NoFile} ELSE IF isUf2File THEN Uf2Files ELSE Files)
    /\ hostBlocks \in (IF viaSpi THEN 0..MaxHostBlocks ELSE {0})
    /\ firmwareFileSize = 0
    /\ phase = IF viaSpi THEN "run" ELSE "open"
    /\ state = "Initializing"
    /\ flashPos = FirmwareFlashStart
    /\ retry = 0
    /\ bytesRead = 0
    /\ bytesWritten = 0
    /\ haveDataInBuffer = FALSE
    /\ readData = [i \in 1..blockReadSize |-> 0]
    /\ reportNextPercent = 20
    /\ formatBuffer = IF viaSpi THEN Msg("IAP started", <<>>)
                      ELSE Msg("SD card initialised OK", <<>>)
    /\ transferPending = FALSE
    /\ dataReceived = FALSE
    /\ spiEnabled = FALSE
    /\ xferLen = "none"
    /\ elapsed = 0
    /\ writeData0 = 26
    /\ verifyRequest = [firmwareLength |-> 0, crc16 |-> 0]
    /\ hostSent = 0
    /\ \E k \in 0..3 : flash = InitFlash(k)
    /\ unlocked = {}
    /\ bootFromBootloader = FALSE
    /\ resetKind = "none"
    /\ persisted = <<>>
    /\ lastOps = <<>>
    /\ edges = {}
    /\ hwFailed = FALSE
    /\ crcSeen = <<>>
    /\ stepResult = "none"
    /\ failStreak = 0
    /\ passPages = {}
    /\ percentSeen = 0
    /\ progressMsgs = <<>>
    /\ lastWrite = "none"
    /\ sbcGone = <<>>
    /\ setupPc = "idle"
    /\ nssr = FALSE
    /\ nssrIrq = FALSE
    /\ transferReadyHigh = FALSE
    /\ handlerSet = FALSE

Init == ProgInit /\ crcBuffer = <<>> /\ crcResult = -1

\* how the step a call attempted went: it succeeded, it failed (streak counts
\* the failures in a row, from base), or the call attempted none
StepOk == stepResult' = "ok" /\ failStreak' = 0
StepFailed(base) == stepResult' = "failed" /\ failStreak' = base + 1
StepNone == stepResult' = "none" /\ UNCHANGED failStreak

\* variants of the decisions below, each wrong in one respect
LateRetryLimit(r) == r > maxRetries + 1
LaterRetryLimit(r) == r > maxRetries + 2
PersistsAlways(success, st) == ~success
NeverSkipErase(f, pos, sectorSize) == FALSE
ChecksumAlwaysMatches(request, crc16) == TRUE
ChecksumErrorLocks == "LockingFlash"
ChecksumErrorKeepsOnePage == FirmwareFlashStart + pageSize
AckTimeoutRewrites == "WritingUpgrade"
PadZero(data, n) == [i \in 1..blockReadSize |-> IF i <= n THEN data[i] ELSE 0]
Uf2NeverUnexpected(rec, addr) == FALSE
PageWriteTrusted(ok, same) == ok

\* line 789
RetryLimitHit(r) == r > maxRetries
\* line 1100
ResetPersists(success, st) == ~success /\ StateNo(st) >= StateNo("WritingUpgrade")
\* line 866 / 884: the erase is skipped for a sector that reads erased
SkipErase(f, pos, sectorSize) == IsSectorErased(f, pos, sectorSize)
\* line 995
ChecksumMatches(request, crc16) == request.crc16 = crc16
\* line 1019
AckTimeoutNext == "LockingFlash"
\* lines 1038-1039
ChecksumErrorNext == "WritingUpgrade"
ChecksumErrorCursor == FirmwareFlashStart

\* ------------------------------------------------------------ Reset
\* Reset(success) called in state st with formatBuffer msg, after the operations
\* ops of this step and with lock bits unl; wrote says whether the write of the
\* text took effect (its result is not looked at).
Reset(success, st, msg, ops, unl, wrote) ==
    LET persist == ResetPersists(success, st)
        unlockLen == IF chip = "SAME5x" THEN pageSize ELSE pageSize + 1
        resetOps ==
            IF ~persist THEN <<>>
            ELSE <<Op("unlock", FirmwareFlashStart, unlockLen),
                   Op("write", FirmwareFlashStart, MsgLen)>>
                 \o (IF chip = "SAME5x" THEN <<>> ELSE <<Op("clear_gpnvm", 1, 0)>>)
    IN  /\ phase' = "halt"
        /\ resetKind' = IF success THEN "success" ELSE "fatal"
        /\ persisted' = IF persist THEN [text |-> msg, written |-> wrote] ELSE persisted
        /\ flash' = IF persist /\ wrote
                    THEN [a \in DOMAIN flash |->
                            IF a < FirmwareFlashStart + MsgLen THEN MsgByte ELSE flash[a]]
                    ELSE flash
        /\ unlocked' = IF persist THEN unl \cup PagesOf(FirmwareFlashStart, unlockLen) ELSE unl
        /\ bootFromBootloader' = (bootFromBootloader \/ (persist /\ chip # "SAME5x"))
        /\ lastOps' = ops \o resetOps

\* ------------------------------------------------------------ openBinary
openBinary ==
    /\ phase = "open"
    /\ LET maxFirmwareFileSize == IF isUf2File THEN 2 * Capacity ELSE Capacity
       IN  IF file.size > maxFirmwareFileSize
           THEN /\ formatBuffer' = Msg("ERROR: File %s is too big", <<>>)
                /\ Reset(FALSE, state, formatBuffer', <<>>, unlocked, TRUE)
                /\ UNCHANGED firmwareFileSize
           ELSE /\ firmwareFileSize' = file.size
                /\ formatBuffer' = Msg("File %s opened", <<>>)
                /\ phase' = "run"
                /\ lastOps' = <<Op("open", 0, 0)>>
                /\ UNCHANGED hw
    /\ StepNone
    /\ UNCHANGED <<conf, sbcGone, crcIO, irq, wlog, spi, state, flashPos, retry, bytesRead, bytesWritten,
                   haveDataInBuffer, readData, reportNextPercent, edges, hwFailed, crcSeen,
                   passPages>>

\* ------------------------------------------------------------ writeBinary
\* lines 789-793: the retry bound is checked before the state is looked at
RetryExceeded ==
    /\ phase = "run"
    /\ RetryLimitHit(retry)
    /\ formatBuffer' = Msg("ERROR: Operation %d failed after %d retries",
                           <<StateNo(state) - 1, maxRetries>>)
    /\ \E wrote \in BOOLEAN : Reset(FALSE, state, formatBuffer', <<>>, unlocked, wrote)
    /\ StepNone
    /\ UNCHANGED <<conf, sbcGone, crcIO, irq, wlog, spi, firmwareFileSize, state, flashPos, retry, bytesRead,
                   bytesWritten, haveDataInBuffer, readData, reportNextPercent,
                   edges, hwFailed, crcSeen, passPages>>

Running(st) == phase = "run" /\ ~RetryLimitHit(retry) /\ state = st

\* case Initializing falls through into case UnlockingFlash
UnlockingFlash ==
    /\ phase = "run" /\ ~RetryLimitHit(retry)
    /\ state \in {"Initializing", "UnlockingFlash"}
    /\ LET e0 == IF state = "Initializing"
                 THEN edges \cup {<<"Initializing", "UnlockingFlash">>} ELSE edges
           m0 == IF state = "Initializing" THEN Msg("Unlocking flash", <<>>) ELSE formatBuffer
       IN  \E ok \in BOOLEAN :
           /\ hwFailed' = (hwFailed \/ ~ok)
           /\ IF ok THEN StepOk ELSE StepFailed(failStreak)
           /\ IF chip = "SAME5x"
              THEN LET unlockStart == FirmwareFlashStart - (FirmwareFlashStart % LockRegionSize)
                       len == FirmwareFlashEnd - unlockStart
                   IN  /\ lastOps' = <<Op("unlock_all", unlockStart, len)>>
                       /\ IF ok
                          THEN /\ unlocked' = unlocked \cup PagesOf(unlockStart, len)
                               /\ flashPos' = FirmwareFlashStart
                               /\ formatBuffer' = Msg("Erasing flash", <<>>)
                               /\ state' = "ErasingFlash"
                               /\ edges' = e0 \cup {<<"UnlockingFlash", "ErasingFlash">>}
                               /\ UNCHANGED retry
                          ELSE /\ retry' = retry + 1
                               /\ state' = "UnlockingFlash"
                               /\ edges' = e0
                               /\ formatBuffer' = m0
                               /\ UNCHANGED <<unlocked, flashPos>>
              ELSE /\ lastOps' = <<Op("unlock", flashPos, pageSize)>>
                   /\ IF ok
                      THEN /\ unlocked' = unlocked \cup PagesOf(flashPos, pageSize)
                           /\ retry' = 0
                           /\ IF flashPos + pageSize >= FirmwareFlashEnd
                              THEN /\ flashPos' = FirmwareFlashStart
                                   /\ formatBuffer' = Msg("Erasing flash", <<>>)
                                   /\ state' = "ErasingFlash"
                                   /\ edges' = e0 \cup {<<"UnlockingFlash", "ErasingFlash">>}
                              ELSE /\ flashPos' = flashPos + pageSize
                                   /\ formatBuffer' = m0
                                   /\ state' = "UnlockingFlash"
                                   /\ edges' = e0
                      ELSE /\ retry' = retry + 1
                           /\ state' = "UnlockingFlash"
                           /\ edges' = e0
                           /\ formatBuffer' = m0
                           /\ UNCHANGED <<unlocked, flashPos>>
    /\ UNCHANGED <<conf, sbcGone, crcIO, irq, wlog, spi, firmwareFileSize, phase, bytesRead, bytesWritten,
                   haveDataInBuffer, readData, reportNextPercent,
                   flash, bootFromBootloader, resetKind, persisted, crcSeen, passPages>>

\* outcomes of the hardware erase: done, refused, or reported done with the
\* sector still not reading erased
EraseOutcomes == {"ok", "fail", "dirty"}

ErasingFlash ==
    /\ Running("ErasingFlash")
    /\ LET sectorSize == SectorSizeAt(flashPos)
           m0 == IF retry # 0 THEN Msg("Erase retry #%u", <<retry>>) ELSE formatBuffer
           skip == SkipErase(flash, flashPos, sectorSize)
       IN  \E outcome \in (IF skip THEN {"ok"} ELSE EraseOutcomes) :
           LET hs == HwSector(flashPos)
               f1 == IF ~skip /\ outcome = "ok" THEN FlashErased(flash, hs[1], hs[2]) ELSE flash
               done == (skip \/ outcome # "fail") /\ IsSectorErased(f1, flashPos, sectorSize)
               pos1 == IF done THEN flashPos + sectorSize ELSE flashPos
           IN  /\ lastOps' = IF skip THEN <<>> ELSE <<Op("erase", flashPos, sectorSize)>>
               /\ flash' = f1
               /\ hwFailed' = (hwFailed \/ outcome # "ok")
               /\ retry' = IF done THEN 0 ELSE retry + 1
               /\ IF done THEN StepOk ELSE StepFailed(failStreak)
               /\ IF pos1 >= FirmwareFlashEnd
                  THEN /\ flashPos' = FirmwareFlashStart
                       /\ haveDataInBuffer' = FALSE
                       /\ transferPending' = IF viaSpi THEN FALSE ELSE transferPending
                       /\ formatBuffer' = Msg("Writing data", <<>>)
                       /\ state' = "WritingUpgrade"
                       /\ edges' = edges \cup {<<"ErasingFlash", "WritingUpgrade">>}
                       /\ passPages' = {}
                  ELSE /\ flashPos' = pos1
                       /\ formatBuffer' = m0
                       /\ UNCHANGED <<haveDataInBuffer, transferPending, state, edges,
                                      passPages>>
    /\ UNCHANGED <<conf, sbcGone, crcIO, irq, wlog, firmwareFileSize, phase, bytesRead, bytesWritten, readData,
                   reportNextPercent, dataReceived, spiEnabled, xferLen, elapsed,
                   writeData0, verifyRequest, hostSent,
                   unlocked, bootFromBootloader, resetKind, persisted, crcSeen>>

LockingFlash ==
    /\ Running("LockingFlash")
    /\ \E ok \in BOOLEAN :
       /\ IF ok THEN StepOk ELSE StepFailed(failStreak)
       /\ IF chip = "SAME5x"
          THEN LET lockStart == FirmwareFlashStart - (FirmwareFlashStart % LockRegionSize)
                   len == FirmwareFlashEnd - lockStart
                   ops == <<Op("lock_all", lockStart, len)>>
               IN  IF ok
                   THEN /\ formatBuffer' = Msg("Update successful! Rebooting...", <<>>)
                        /\ Reset(TRUE, state, formatBuffer', ops,
                                 unlocked \ PagesOf(lockStart, len), TRUE)
                        /\ UNCHANGED <<retry, flashPos, hwFailed>>
                   ELSE /\ retry' = retry + 1
                        /\ lastOps' = ops
                        /\ hwFailed' = TRUE
                        /\ UNCHANGED <<formatBuffer, flashPos, phase, hw>>
          ELSE LET ops == <<Op("lock", flashPos, pageSize)>>
               IN  IF ok
                   THEN /\ flashPos' = flashPos + pageSize
                        /\ UNCHANGED hwFailed
                        /\ IF flashPos' >= FirmwareFlashEnd
                           THEN /\ formatBuffer' = Msg("Update successful! Rebooting...", <<>>)
                                /\ Reset(TRUE, state, formatBuffer', ops,
                                         unlocked \ PagesOf(flashPos, pageSize), TRUE)
                                /\ UNCHANGED retry
                           ELSE /\ retry' = 0
                                /\ lastOps' = ops
                                /\ unlocked' = unlocked \ PagesOf(flashPos, pageSize)
                                /\ UNCHANGED <<formatBuffer, phase, flash, bootFromBootloader,
                                               resetKind, persisted>>
                   ELSE /\ retry' = retry + 1
                        /\ lastOps' = ops
                        /\ hwFailed' = TRUE
                        /\ UNCHANGED <<formatBuffer, flashPos, phase, hw>>
    /\ UNCHANGED <<conf, sbcGone, crcIO, irq, wlog, spi, firmwareFileSize, state, bytesRead, bytesWritten,
                   haveDataInBuffer, readData, reportNextPercent, edges, crcSeen, passPages>>

\* ------------------------------------------------------------ SPI transfers
SpiNow == [tp |-> transferPending, dr |-> dataReceived, en |-> spiEnabled,
           xl |-> xferLen, el |-> elapsed]
\* setup_spi(bytesToTransfer), lines 343-358
setup_spi(len) == [tp |-> TRUE, dr |-> FALSE, en |-> TRUE, xl |-> len, el |-> 0]
\* disable_spi
disable_spi(sp) == [sp EXCEPT !.en = FALSE]
\* is_spi_transfer_complete finds the flag set and the DMA channels idle (the
\* handler has disabled them)
is_spi_transfer_complete == dataReceived /\ ~spiEnabled

TransferCompleteDelay == 1
TransferTimeout == 2
\* variants: a timeout that never expires, a block timeout counted as a retry or
\* taken for the end of the image
NeverTimedOut(el) == FALSE
BlockTimeoutRetries ==
    [ok |-> FALSE, fatal |-> FALSE, data |-> readData, br |-> bytesRead,
     retry |-> retry + 1, msg |-> formatBuffer, ops |-> <<>>, failed |-> FALSE,
     spi |-> SpiNow]
BlockTimeoutEndsImage ==
    [ok |-> TRUE, fatal |-> FALSE, data |-> [i \in 1..blockReadSize |-> Erased], br |-> 0, retry |-> retry,
     msg |-> formatBuffer, ops |-> <<>>, failed |-> FALSE, spi |-> disable_spi(SpiNow)]
\* millis() - transferStartTime > TransferTimeout
TimedOut(el) == el > TransferTimeout

\* ------------------------------------------------------------ block sources
\* What a call of ReadBlock can do: ok (a block is in data), fatal (it called
\* Reset), or neither (false returned); with the values it leaves behind.
Src(ok, fatal, data, br, rt, msg, ops, failed, sp) ==
    [ok |-> ok, fatal |-> fatal, data |-> data, br |-> br, retry |-> rt, msg |-> msg,
     ops |-> ops, failed |-> failed, spi |-> sp]

Pad(data, n) == [i \in 1..blockReadSize |-> IF i <= n THEN data[i] ELSE Erased]

\* lines 639-644: no block in time
BlockTimeout ==
    Src(FALSE, TRUE, readData, bytesRead, retry,
        Msg("ERROR: Timeout while waiting for response", <<>>), <<>>, FALSE, SpiNow)

\* ReadBlock of the SPI build, lines 621-652
ReadBlockSpi ==
    IF transferPending
    THEN IF is_spi_transfer_complete
         THEN {Src(TRUE, FALSE, readData, blockReadSize, retry, formatBuffer, <<>>, FALSE,
                   [SpiNow EXCEPT !.tp = FALSE])}
         ELSE IF flashPos # FirmwareFlashStart /\ elapsed > TransferCompleteDelay
         THEN {Src(TRUE, FALSE, Pad(readData, 0), 0, retry, formatBuffer, <<>>, FALSE,
                   disable_spi(SpiNow))}
         ELSE IF TimedOut(elapsed)
         THEN {BlockTimeout}
         ELSE {Src(FALSE, FALSE, readData, bytesRead, retry, formatBuffer, <<>>, FALSE, SpiNow)}
    ELSE {Src(FALSE, FALSE, readData, bytesRead, retry, formatBuffer, <<>>, FALSE,
              setup_spi("block"))}

\* ReadBlock of the file build for a raw image, lines 755-781
ReadBlockRaw(m0) ==
    LET off == flashPos - FirmwareFlashStart
        at == Min(off, file.size)
        n == Min(blockReadSize, file.size - at)
        seek == Op("seek", off, 0)
        read == Op("read", at, blockReadSize)
        got == [i \in 1..n |-> file.bytes[at + i]]
    IN  { Src(FALSE, FALSE, readData, bytesRead, retry + 1, m0, <<seek>>, TRUE, SpiNow),
          Src(FALSE, FALSE, readData, 0, retry + 1, m0, <<seek, read>>, TRUE, SpiNow),
          Src(TRUE, FALSE, Pad(got, n), n, retry, m0, <<seek, read>>, FALSE, SpiNow) }

\* line 719
Uf2BadMagic(rec) ==
    \/ rec.magicStart0 # MagicStart0Val
    \/ rec.magicStart1 # MagicStart1Val
    \/ rec.magicEnd # MagicEndVal
\* line 726
Uf2Unexpected(rec, addr) == rec.targetAddr # addr \/ rec.payloadSize # Uf2Payload

\* ReadBlockUf2, lines 677-738: the loop from bytesRead = br on, where the
\* f_read of iteration failAt fails (none does if failAt is past the last one)
RECURSIVE Uf2Loop(_, _, _, _, _)
Uf2Loop(br, data, ops, failAt, m0) ==
    LET seekPos == (flashPos - FirmwareFlashStart) * 2
        at == seekPos + br * 2
        read == Op("read", Min(at, file.size), Uf2RecordSize)
        rec == file.recs[(at \div Uf2RecordSize) + 1]
    IN  IF at = firmwareFileSize
        THEN Src(TRUE, FALSE, Pad(data, br), br, retry, m0, ops, FALSE, SpiNow)
        ELSE IF br \div Uf2Payload = failAt
        THEN Src(FALSE, FALSE, data, br, retry + 1, m0, Append(ops, read), TRUE, SpiNow)
        ELSE IF file.size - at < Uf2RecordSize
        THEN Src(FALSE, FALSE, data, br, retry + 1, m0, Append(ops, read), FALSE, SpiNow)
        ELSE IF Uf2BadMagic(rec)
        THEN Src(FALSE, TRUE, data, br, retry,
                 Msg("ERROR: bad UF2 block at offset %u", <<seekPos + br>>),
                 Append(ops, read), FALSE, SpiNow)
        ELSE IF Uf2Unexpected(rec, flashPos + br)
        THEN Src(FALSE, TRUE, data, br, retry,
                 Msg("ERROR: unexpected data in UF2 block at offset %u", <<seekPos + br>>),
                 Append(ops, read), FALSE, SpiNow)
        ELSE LET d1 == [i \in 1..blockReadSize |->
                           IF i > br /\ i <= br + Uf2Payload THEN rec.data[i - br]
                           ELSE data[i]]
             IN  IF br + Uf2Payload < blockReadSize
                 THEN Uf2Loop(br + Uf2Payload, d1, Append(ops, read), failAt, m0)
                 ELSE Src(TRUE, FALSE, d1, br + Uf2Payload, retry, m0,
                          Append(ops, read), FALSE, SpiNow)

ReadBlockUf2(m0) ==
    LET seek == Op("seek", (flashPos - FirmwareFlashStart) * 2, 0)
    IN  { Src(FALSE, FALSE, readData, bytesRead, retry + 1, m0, <<seek>>, TRUE, SpiNow) }
        \cup { Uf2Loop(0, readData, <<seek>>, failAt, m0) :
                 failAt \in 0..(blockReadSize \div Uf2Payload) }

\* ReadBlock of the file build, lines 742-782
ReadBlockFile ==
    LET m0 == IF retry # 0 THEN Msg("Read file retry #%u", <<retry>>) ELSE formatBuffer
    IN  IF isUf2File THEN ReadBlockUf2(m0) ELSE ReadBlockRaw(m0)

ReadBlock == IF viaSpi THEN ReadBlockSpi ELSE ReadBlockFile

\* the block already in the buffer
Buffered == Src(TRUE, FALSE, readData, bytesRead, retry, formatBuffer, <<>>, FALSE, SpiNow)

SpiSet(sp) ==
    /\ transferPending' = sp.tp
    /\ dataReceived' = sp.dr
    /\ spiEnabled' = sp.en
    /\ xferLen' = sp.xl
    /\ elapsed' = sp.el

\* ShowProgress, lines 588-601: the total the percentage is taken of
totalSize ==
    IF viaSpi THEN Capacity
    ELSE IF isUf2File THEN firmwareFileSize \div 2 ELSE firmwareFileSize

\* outcomes of programming a page: done, refused, or reported done with a cell
\* programmed wrongly
WriteOutcomes == {"ok", "fail", "bad"}

\* ------------------------------------------------------------ CRC16
\* a ^ b, bit by bit; BitXor computes its operands once, then combines them
RECURSIVE XorBits(_, _)
XorBits(a, b) ==
    IF a = 0 THEN b
    ELSE IF b = 0 THEN a
    ELSE ((a + b) % 2) + 2 * XorBits(a \div 2, b \div 2)
BitXor(a, b) == CHOOSE r \in { XorBits(x, y) : x \in {a}, y \in {b} } : TRUE

\* lines 421-454, in decimal
crc16_table == <<
    0, 49345, 49537, 320, 49921, 960, 640, 49729,
    50689, 1728, 1920, 51009, 1280, 50625, 50305, 1088,
    52225, 3264, 3456, 52545, 3840, 53185, 52865, 3648,
    2560, 51905, 52097, 2880, 51457, 2496, 2176, 51265,
    55297, 6336, 6528, 55617, 6912, 56257, 55937, 6720,
    7680, 57025, 57217, 8000, 56577, 7616, 7296, 56385,
    5120, 54465, 54657, 5440, 55041, 6080, 5760, 54849,
    53761, 4800, 4992, 54081, 4352, 53697, 53377, 4160,
    61441, 12480, 12672, 61761, 13056, 62401, 62081, 12864,
    13824, 63169, 63361, 14144, 62721, 13760, 13440, 62529,
    15360, 64705, 64897, 15680, 65281, 16320, 16000, 65089,
    64001, 15040, 15232, 64321, 14592, 63937, 63617, 14400,
    10240, 59585, 59777, 10560, 60161, 11200, 10880, 59969,
    60929, 11968, 12160, 61249, 11520, 60865, 60545, 11328,
    58369, 9408, 9600, 58689, 9984, 59329, 59009, 9792,
    8704, 58049, 58241, 9024, 57601, 8640, 8320, 57409,
    40961, 24768, 24960, 41281, 25344, 41921, 41601, 25152,
    26112, 42689, 42881, 26432, 42241, 26048, 25728, 42049,
    27648, 44225, 44417, 27968, 44801, 28608, 28288, 44609,
    43521, 27328, 27520, 43841, 26880, 43457, 43137, 26688,
    30720, 47297, 47489, 31040, 47873, 31680, 31360, 47681,
    48641, 32448, 32640, 48961, 32000, 48577, 48257, 31808,
    46081, 29888, 30080, 46401, 30464, 47041, 46721, 30272,
    29184, 45761, 45953, 29504, 45313, 29120, 28800, 45121,
    20480, 37057, 37249, 20800, 37633, 21440, 21120, 37441,
    38401, 22208, 22400, 38721, 21760, 38337, 38017, 21568,
    39937, 23744, 23936, 40257, 24320, 40897, 40577, 24128,
    23040, 39617, 39809, 23360, 39169, 22976, 22656, 38977,
    34817, 18624, 18816, 35137, 19200, 35777, 35457, 19008,
    19968, 36545, 36737, 20288, 36097, 19904, 19584, 35905,
    17408, 33985, 34177, 17728, 34561, 18368, 18048, 34369,
    33281, 17088, 17280, 33601, 16640, 33217, 32897, 16448 >>

\* one round of the loop of CRC16, lines 460-461
Crc16Step(Crc, byte) ==
    LET x == BitXor(Crc, byte) % 65536
    IN  BitXor(Crc \div 256, crc16_table[(x % 256) + 1]) % 65536

\* the loop of CRC16 from index i on; Crc is updated once in every round (the
\* one-element set gives the updated value a name, so it is computed once)
RECURSIVE Crc16From(_, _, _, _)
Crc16From(Crc, buffer, i, length) ==
    IF i >= length THEN Crc
    ELSE CHOOSE r \in { Crc16From(c, buffer, i + 1, length) :
                          c \in {Crc16Step(Crc, buffer[i + 1])} } : TRUE

\* a variant that starts from 0
CRC16ZeroInit(buffer, length) == Crc16From(0, buffer, 0, length)

\* CRC16(buffer, length), lines 419-465
CRC16(buffer, length) == Crc16From(65535, buffer, 0, length)

\* the bytes CRC16 reads from FirmwareFlashStart on
FlashBytes(f, length) == [i \in 1..length |-> FlashAt(f, FirmwareFlashStart + i - 1)]

\* the page counts as written when flash_write reported success and memcmp
\* found the flash equal to the buffer, lines 950-961
PageVerified(ok, same) == ok /\ same

\* ------------------------------------------------------------ WritingUpgrade
\* lines 917-982.  src is the block in the buffer or what ReadBlock did;
\* outcome is what the hardware does with the page, wrote what it does with
\* the text of Reset, trap whether a division by zero in ShowProgress faults
\* (the Cortex-M divide returns 0 unless DIV_0_TRP is set).
WriteStep(src, outcome, wrote, trap) ==
    /\ readData' = src.data
    /\ bytesRead' = src.br
    /\ IF src.fatal
       THEN /\ formatBuffer' = src.msg
            /\ SpiSet(src.spi)
            /\ Reset(FALSE, state, src.msg, src.ops, unlocked, wrote)
            /\ hwFailed' = (hwFailed \/ src.failed)
            /\ StepNone
            /\ lastWrite' = "none"
            /\ UNCHANGED <<state, flashPos, retry, bytesWritten, haveDataInBuffer,
                           reportNextPercent, edges, passPages, percentSeen, progressMsgs>>
       ELSE IF ~src.ok
       THEN /\ retry' = src.retry
            /\ formatBuffer' = src.msg
            /\ SpiSet(src.spi)
            /\ lastOps' = src.ops
            /\ hwFailed' = (hwFailed \/ src.failed)
            /\ IF src.retry # retry THEN StepFailed(failStreak) ELSE StepNone
            /\ lastWrite' = "none"
            /\ UNCHANGED <<state, flashPos, bytesWritten, haveDataInBuffer,
                           reportNextPercent, edges, phase, hw, passPages,
                           percentSeen, progressMsgs>>
       ELSE LET bw == IF haveDataInBuffer THEN bytesWritten ELSE 0
                rt == IF haveDataInBuffer THEN retry ELSE 0
                m1 == IF rt # 0 THEN Msg("Flash write retry #%u", <<rt>>) ELSE src.msg
                page == [i \in 1..pageSize |-> src.data[bw + i]]
                inside == InRegion(flashPos, pageSize)
                f1 == CASE outcome = "ok" -> FlashWritten(flash, flashPos, page)
                        [] outcome = "bad" ->
                             FlashWritten(flash, flashPos, [i \in 1..pageSize |-> 0])
                        [] OTHER -> flash
                \* memcmp of the buffer with the flash; what lies outside the
                \* firmware region is not known, so there the outcome decides
                same == IF inside
                        THEN \A i \in 1..pageSize : f1[flashPos + i - 1] = page[i]
                        ELSE outcome = "ok"
                good == PageVerified(outcome # "fail", same)
                ops1 == Append(src.ops, Op("write", flashPos, pageSize))
                pos1 == flashPos + pageSize
                bw1 == bw + pageSize
                percentDone == IF totalSize = 0 THEN 0
                               ELSE (100 * (pos1 - FirmwareFlashStart)) \div totalSize
                report == percentDone >= reportNextPercent
                m2 == IF report THEN Msg("Flashing firmware, %u%% completed", <<percentDone>>)
                      ELSE m1
                last == bw1 = blockReadSize /\ src.br < blockReadSize
                arm == good /\ ~(totalSize = 0 /\ trap) /\ last /\ viaSpi
            IN  /\ flash' = f1
                /\ SpiSet(IF arm THEN setup_spi("request") ELSE src.spi)
                /\ hwFailed' = (hwFailed \/ (inside /\ outcome # "ok"))
                /\ UNCHANGED <<bootFromBootloader, persisted, unlocked>>
                /\ IF good THEN StepOk
                   ELSE StepFailed(IF haveDataInBuffer THEN failStreak ELSE 0)
                /\ passPages' = IF good THEN passPages \cup {flashPos} ELSE passPages
                /\ lastWrite' = IF outcome = "fail" THEN "fail"
                                ELSE IF same THEN "ok" ELSE "differs"
                /\ IF ~good
                   THEN /\ retry' = rt + 1
                        /\ haveDataInBuffer' = TRUE
                        /\ bytesWritten' = bw
                        /\ formatBuffer' = m1
                        /\ lastOps' = ops1
                        /\ UNCHANGED <<state, flashPos, reportNextPercent, edges,
                                       phase, resetKind, percentSeen, progressMsgs>>
                   ELSE /\ retry' = 0
                        /\ bytesWritten' = bw1
                        /\ flashPos' = pos1
                        /\ IF totalSize = 0 /\ trap
                           THEN /\ phase' = "halt"
                                /\ resetKind' = "trap"
                                /\ haveDataInBuffer' = TRUE
                                /\ formatBuffer' = m1
                                /\ lastOps' = ops1
                                /\ UNCHANGED <<state, reportNextPercent, edges,
                                               percentSeen, progressMsgs>>
                           ELSE /\ UNCHANGED <<phase, resetKind>>
                                /\ percentSeen' = percentDone
                                /\ progressMsgs' =
                                     IF report THEN Append(progressMsgs, reportNextPercent)
                                     ELSE progressMsgs
                                /\ reportNextPercent' =
                                     IF report THEN reportNextPercent + 20
                                     ELSE reportNextPercent
                                /\ formatBuffer' = m2
                                /\ haveDataInBuffer' = (bw1 # blockReadSize)
                                /\ IF last
                                   THEN IF viaSpi
                                        THEN /\ state' = "VerifyingChecksum"
                                             /\ edges' = edges \cup
                                                  {<<"WritingUpgrade", "VerifyingChecksum">>}
                                             /\ lastOps' = ops1
                                        ELSE /\ state' = "LockingFlash"
                                             /\ edges' = edges \cup
                                                  {<<"WritingUpgrade", "LockingFlash">>}
                                             /\ lastOps' = Append(ops1, Op("close", 0, 0))
                                   ELSE /\ lastOps' = ops1
                                        /\ UNCHANGED <<state, edges>>

WritingUpgrade ==
    /\ Running("WritingUpgrade")
    /\ \E src \in (IF haveDataInBuffer THEN {Buffered} ELSE ReadBlock) :
       \E outcome \in (IF src.ok THEN WriteOutcomes ELSE {"ok"}),
          wrote \in (IF src.fatal THEN BOOLEAN ELSE {TRUE}),
          trap \in (IF src.ok /\ totalSize = 0 THEN BOOLEAN ELSE {FALSE}) :
          WriteStep(src, outcome, wrote, trap)
    /\ UNCHANGED <<conf, sbcGone, crcIO, irq, firmwareFileSize, writeData0, verifyRequest, hostSent, crcSeen>>

\* ------------------------------------------------------------ checksum exchange
\* case VerifyingChecksum, lines 985-1012
VerifyingChecksum ==
    /\ Running("VerifyingChecksum")
    /\ IF TimedOut(elapsed)
       THEN /\ formatBuffer' = Msg("Timeout while waiting for checksum", <<>>)
            /\ \E wrote \in BOOLEAN :
                 Reset(FALSE, state, formatBuffer', <<>>, unlocked, wrote)
            /\ StepNone
            /\ UNCHANGED <<spi, state, retry, edges, crcSeen>>
       ELSE IF is_spi_transfer_complete
       THEN LET crc16 == CRC16(FlashBytes(flash, verifyRequest.firmwareLength),
                               verifyRequest.firmwareLength)
                match == ChecksumMatches(verifyRequest, crc16)
                next == IF match THEN "SendingChecksumOK" ELSE "SendingChecksumError"
            IN  /\ crcSeen' = <<crc16, verifyRequest.crc16>>
                /\ writeData0' = IF match THEN 12 ELSE 255
                /\ formatBuffer' = IF match THEN formatBuffer ELSE Msg("CRC mismatch", <<>>)
                /\ state' = next
                /\ edges' = edges \cup {<<"VerifyingChecksum", next>>}
                /\ retry' = 0
                /\ SpiSet(setup_spi("ack"))
                /\ lastOps' = <<>>
                /\ StepOk
                /\ UNCHANGED <<verifyRequest, hostSent, phase, hw>>
       ELSE /\ lastOps' = <<>>
            /\ StepNone
            /\ UNCHANGED <<spi, state, retry, edges, crcSeen, formatBuffer, phase, hw>>
    /\ UNCHANGED <<conf, sbcGone, crcIO, irq, wlog, firmwareFileSize, flashPos, bytesRead, bytesWritten,
                   haveDataInBuffer, readData, reportNextPercent, hwFailed, passPages>>

\* case SendingChecksumOK, lines 1014-1026
SendingChecksumOK ==
    /\ Running("SendingChecksumOK")
    /\ IF TimedOut(elapsed)
       THEN /\ formatBuffer' = Msg("Timeout while exchanging checksum acknowledgement", <<>>)
            /\ state' = AckTimeoutNext
            /\ edges' = edges \cup {<<"SendingChecksumOK", AckTimeoutNext>>}
            /\ UNCHANGED transferPending
       ELSE IF is_spi_transfer_complete
       THEN /\ transferPending' = FALSE
            /\ state' = "LockingFlash"
            /\ edges' = edges \cup {<<"SendingChecksumOK", "LockingFlash">>}
            /\ UNCHANGED formatBuffer
       ELSE UNCHANGED <<transferPending, state, edges, formatBuffer>>
    /\ lastOps' = <<>>
    /\ StepNone
    /\ UNCHANGED <<conf, sbcGone, crcIO, irq, wlog, firmwareFileSize, phase, flashPos, retry, bytesRead, bytesWritten,
                   haveDataInBuffer, readData, reportNextPercent, dataReceived, spiEnabled,
                   xferLen, elapsed, writeData0, verifyRequest, hostSent, hw,
                   hwFailed, crcSeen, passPages>>

\* case SendingChecksumError, lines 1028-1042
SendingChecksumError ==
    /\ Running("SendingChecksumError")
    /\ IF TimedOut(elapsed)
       THEN /\ formatBuffer' = Msg("Timeout while reporting CRC error", <<>>)
            /\ \E wrote \in BOOLEAN :
                 Reset(FALSE, state, formatBuffer', <<>>, unlocked, wrote)
            /\ UNCHANGED <<transferPending, state, flashPos, retry, edges, passPages>>
       ELSE IF is_spi_transfer_complete
       THEN /\ transferPending' = FALSE
            /\ flashPos' = ChecksumErrorCursor
            /\ state' = ChecksumErrorNext
            /\ edges' = edges \cup {<<"SendingChecksumError", ChecksumErrorNext>>}
            /\ retry' = 0
            /\ lastOps' = <<>>
            /\ passPages' = {}
            /\ UNCHANGED <<formatBuffer, phase, hw>>
       ELSE /\ lastOps' = <<>>
            /\ UNCHANGED <<transferPending, state, flashPos, retry, edges, formatBuffer,
                           phase, hw, passPages>>
    /\ StepNone
    /\ UNCHANGED <<conf, sbcGone, crcIO, irq, wlog, firmwareFileSize, bytesRead, bytesWritten,
                   haveDataInBuffer, readData, reportNextPercent, dataReceived, spiEnabled,
                   xferLen, elapsed, writeData0, verifyRequest, hostSent,
                   hwFailed, crcSeen>>

\* ------------------------------------------------------------ the SBC and time
\* the image the SBC holds, and what it sends
HostLength == hostBlocks * blockReadSize
HostImage(length) == [i \in 1..length |-> IF i <= HostLength THEN ImageByte(1, i) ELSE Erased]
HostBlock(k) == [i \in 1..blockReadSize |-> ImageByte(1, k * blockReadSize + i)]
\* the checksum records the SBC may send: the length of its image or one past
\* the firmware region, with the CRC of its image or another value
HostRequests ==
    { [firmwareLength |-> n, crc16 |-> BitXor(CRC16(HostImage(n), n), x)] :
        n \in {HostLength, Capacity + 1}, x \in {0, 1} }

\* The SBC clocks the armed transfer and raises NSS; SBC_SPI_HANDLER (lines
\* 381-391) then disables the SPI and sets dataReceived.
SBC_SPI_HANDLER ==
    /\ viaSpi /\ phase = "run" /\ sbcGone = <<>>
    /\ spiEnabled /\ ~dataReceived
    /\ CASE xferLen = "block" ->
              /\ hostSent < hostBlocks
              /\ readData' = HostBlock(hostSent)
              /\ hostSent' = hostSent + 1
              /\ UNCHANGED verifyRequest
         [] xferLen = "request" ->
              /\ verifyRequest' \in HostRequests
              /\ UNCHANGED <<readData, hostSent>>
         [] OTHER ->
              /\ hostSent' = IF writeData0 = 255 THEN 0 ELSE hostSent
              /\ UNCHANGED <<readData, verifyRequest>>
    /\ dataReceived' = TRUE
    /\ spiEnabled' = FALSE
    /\ UNCHANGED <<conf, sbcGone, crcIO, irq, firmwareFileSize, phase, state, flashPos, retry, bytesRead,
                   bytesWritten, haveDataInBuffer, reportNextPercent, formatBuffer,
                   transferPending, xferLen, elapsed, writeData0, hw, hist>>

\* a whole block has been written and verified since the start
BlockWritten ==
    \/ <<"WritingUpgrade", "VerifyingChecksum">> \in edges
    \/ FirmwareFlashStart + blockReadSize - pageSize \in passPages

\* The SBC goes away: from here on it completes no transfer.
SbcLeaves ==
    /\ viaSpi /\ phase = "run" /\ sbcGone = <<>>
    /\ sbcGone' = <<state, BlockWritten, state = "VerifyingChecksum" /\ dataReceived>>
    /\ UNCHANGED <<conf, prog, spi, hw, hist, crcIO, irq>>

\* millis() advances while a transfer is awaited (elapsed is read nowhere else)
Tick ==
    /\ viaSpi /\ phase = "run"
    /\ transferPending /\ ~haveDataInBuffer
    /\ elapsed <= TransferTimeout
    /\ elapsed' = elapsed + 1
    /\ UNCHANGED <<conf, sbcGone, crcIO, irq, prog, transferPending, dataReceived, spiEnabled, xferLen,
                   writeData0, verifyRequest, hostSent, hw, hist>>

\* one call of writeBinary from the loop of AppMain, lines 213-217
writeBinary ==
    \/ RetryExceeded
    \/ UnlockingFlash
    \/ ErasingFlash
    \/ WritingUpgrade
    \/ VerifyingChecksum
    \/ SendingChecksumOK
    \/ SendingChecksumError
    \/ LockingFlash

Next == openBinary \/ writeBinary \/ SBC_SPI_HANDLER \/ SbcLeaves \/ Tick

Spec == Init /\ [][Next]_vars

\* The SBC build on its own.  AppMain calls writeBinary in a loop without end
\* (lines 211-215) and millis() keeps advancing; nothing obliges the SBC to do
\* anything.
SbcInit == Init /\ viaSpi
SbcNext == writeBinary \/ SBC_SPI_HANDLER \/ SbcLeaves \/ Tick
SbcFairSpec ==
    /\ SbcInit /\ [][SbcNext]_vars
    /\ WF_vars(writeBinary)
    /\ WF_vars(Tick)

\* ------------------------------------------------------------ CRC16 on its own
\* CRC16 applied to a buffer of its own: every single byte, and every sequence
\* of up to MaxCrcLen bytes taken from CrcSample
MaxCrcLen == 3
CrcSample == {0, 1, 128, 255}
CrcInputs ==
    { <<b>> : b \in Bytes } \cup UNION { [1..n -> CrcSample] : n \in 0..MaxCrcLen }

CrcInit ==
    /\ ProgInit
    /\ chip = "SAM4E" /\ viaSpi /\ hostBlocks = 0 /\ flash = InitFlash(1)
    /\ crcBuffer \in CrcInputs
    /\ crcResult = -1

CrcCall ==
    /\ crcResult = -1
    /\ crcResult' = CRC16(crcBuffer, Len(crcBuffer))
    /\ UNCHANGED <<conf, prog, spi, hw, hist, sbcGone, crcBuffer, irq>>

CrcSpec == CrcInit /\ [][CrcCall]_vars

\* ------------------------------------------------------------ the SPI link on its own
\* setup_spi, SBC_SPI_HANDLER and is_spi_transfer_complete statement by
\* statement.  The handler runs at interrupt level, so it can run between any
\* two steps of the main code; NSS is driven by the SBC and can rise whenever
\* the SPI is enabled.
SpiLens == {"block", "request", "ack"}
SpiRest == <<conf, prog, hw, hist, sbcGone, crcIO, writeData0, verifyRequest, hostSent>>

SpiInit ==
    /\ ProgInit
    /\ chip = "SAM4E" /\ viaSpi /\ hostBlocks = 0 /\ flash = InitFlash(1)
    /\ crcBuffer = <<>> /\ crcResult = -1

\* setup_spi up to line 351: the SPI is reset and enabled, the status is read
\* and the interrupt enabled.  Called when no transfer is pending (lines 649,
\* 1010) or after the wait for a block was given up (line 973).
SpiSetupArm ==
    /\ setupPc = "idle"
    /\ ~transferPending \/ (~spiEnabled /\ ~dataReceived)
    /\ \E len \in SpiLens : xferLen' = len
    /\ spiEnabled' = TRUE
    /\ nssr' = FALSE
    /\ nssrIrq' = TRUE
    /\ handlerSet' = FALSE
    /\ setupPc' = "flags"
    /\ UNCHANGED <<SpiRest, transferPending, dataReceived, elapsed, transferReadyHigh>>

\* lines 353-355
SpiSetupFlags ==
    /\ setupPc = "flags"
    /\ dataReceived' = FALSE
    /\ transferPending' = TRUE
    /\ elapsed' = 0
    /\ setupPc' = "ready"
    /\ UNCHANGED <<SpiRest, spiEnabled, xferLen, nssr, nssrIrq, transferReadyHigh, handlerSet>>

\* lines 357-358
SpiSetupReady ==
    /\ setupPc = "ready"
    /\ transferReadyHigh' = ~transferReadyHigh
    /\ setupPc' = "idle"
    /\ UNCHANGED <<SpiRest, transferPending, dataReceived, spiEnabled, xferLen, elapsed,
                   nssr, nssrIrq, handlerSet>>

\* the SBC raises NSS at the end of a transfer
SpiNssRises ==
    /\ spiEnabled /\ ~nssr
    /\ nssr' = TRUE
    /\ UNCHANGED <<SpiRest, transferPending, dataReceived, spiEnabled, xferLen, elapsed,
                   setupPc, nssrIrq, transferReadyHigh, handlerSet>>

\* SBC_SPI_HANDLER, lines 381-391
SpiHandler ==
    /\ nssrIrq /\ nssr
    /\ nssr' = FALSE
    /\ nssrIrq' = FALSE
    /\ spiEnabled' = FALSE
    /\ dataReceived' = TRUE
    /\ handlerSet' = TRUE
    /\ UNCHANGED <<SpiRest, transferPending, xferLen, elapsed, setupPc, transferReadyHigh>>

\* is_spi_transfer_complete returning true, lines 393-417
SpiPollComplete ==
    /\ setupPc = "idle" /\ transferPending
    /\ is_spi_transfer_complete
    /\ transferPending' = FALSE
    /\ handlerSet' = FALSE
    /\ UNCHANGED <<SpiRest, dataReceived, spiEnabled, xferLen, elapsed, setupPc,
                   nssr, nssrIrq, transferReadyHigh>>

\* the wait for a block given up, lines 631-636: disable_spi
SpiGiveUp ==
    /\ setupPc = "idle" /\ transferPending /\ xferLen = "block"
    /\ ~is_spi_transfer_complete
    /\ elapsed > TransferCompleteDelay
    /\ spiEnabled
    /\ spiEnabled' = FALSE
    /\ UNCHANGED <<SpiRest, transferPending, dataReceived, xferLen, elapsed, setupPc,
                   nssr, nssrIrq, transferReadyHigh, handlerSet>>

SpiTick ==
    /\ setupPc = "idle" /\ transferPending
    /\ elapsed <= TransferTimeout
    /\ elapsed' = elapsed + 1
    /\ UNCHANGED <<SpiRest, transferPending, dataReceived, spiEnabled, xferLen, setupPc,
                   nssr, nssrIrq, transferReadyHigh, handlerSet>>

SpiNext ==
    \/ SpiSetupArm \/ SpiSetupFlags \/ SpiSetupReady
    \/ SpiNssRises \/ SpiHandler
    \/ SpiPollComplete \/ SpiGiveUp \/ SpiTick
SpiSpec == SpiInit /\ [][SpiNext]_vars

\* ------------------------------------------------------------ claims
\* the firmware region holds the file followed by erased cells
FlashHoldsFile ==
    \A a \in Region :
        flash[a] = IF a - FirmwareFlashStart < file.size
                   THEN file.bytes[a - FirmwareFlashStart + 1] ELSE Erased

\* a run from a raw file of 1..Capacity cells in which no hardware or file
\* operation has failed
RawRunNoFailure ==
    /\ ~viaSpi /\ ~isUf2File
    /\ file.size > 0 /\ file.size <= Capacity
    /\ ~hwFailed

\* C1: from a raw file of any length 0 < L <= capacity, with hardware that never
\* fails, the run ends in the success reboot, and the region then holds the file
\* bytes followed by 0xFF.
C1_RawFileFlashed ==
    (RawRunNoFailure /\ phase = "halt") => (resetKind = "success" /\ FlashHoldsFile)

\* C2: state changes only along the listed edges; the file build never enters
\* a checksum state; the success reboot comes only from LockingFlash.
ChecksumStates == {"VerifyingChecksum", "SendingChecksumOK", "SendingChecksumError"}
AllowedEdges ==
    { <<"Initializing", "UnlockingFlash">>,
      <<"UnlockingFlash", "ErasingFlash">>,
      <<"ErasingFlash", "WritingUpgrade">>,
      <<"VerifyingChecksum", "SendingChecksumOK">>,
      <<"VerifyingChecksum", "SendingChecksumError">>,
      <<"SendingChecksumOK", "LockingFlash">>,
      <<"SendingChecksumError", "WritingUpgrade">> }
    \cup (IF viaSpi THEN {<<"WritingUpgrade", "VerifyingChecksum">>}
          ELSE {<<"WritingUpgrade", "LockingFlash">>})
C2_StateEdges ==
    /\ edges \subseteq AllowedEdges
    /\ state = "Initializing" \/ \E e \in edges : e[2] = state
    /\ ~viaSpi => state \notin ChecksumStates
    /\ resetKind = "success" => state = "LockingFlash"
C2_Witness ==
    /\ viaSpi /\ resetKind = "success"
    /\ <<"SendingChecksumError", "WritingUpgrade">> \in edges
    /\ <<"SendingChecksumOK", "LockingFlash">> \in edges

\* C3: a call of writeBinary with retry > maxRetries does nothing but the fatal
\* abort, reporting the current state, and so no step fails more than
\* maxRetries + 1 times in a row.
ResetOps(st) ==
    IF StateNo(st) < StateNo("WritingUpgrade") THEN <<>>
    ELSE IF chip = "SAME5x"
    THEN <<Op("unlock", FirmwareFlashStart, pageSize), Op("write", FirmwareFlashStart, MsgLen)>>
    ELSE <<Op("unlock", FirmwareFlashStart, pageSize + 1),
           Op("write", FirmwareFlashStart, MsgLen), Op("clear_gpnvm", 1, 0)>>
\* a step of the SBC or of the clock, not of the program
EnvOnly ==
    UNCHANGED <<state, flashPos, retry, bytesRead, bytesWritten, haveDataInBuffer,
                formatBuffer, transferPending, hw, lastOps>>
C3_Abort ==
    /\ resetKind' = "fatal" /\ phase' = "halt"
    /\ formatBuffer' = Msg("ERROR: Operation %d failed after %d retries",
                           <<StateNo(state) - 1, maxRetries>>)
    /\ lastOps' = ResetOps(state)
    /\ UNCHANGED <<state, flashPos, retry, bytesRead, bytesWritten, haveDataInBuffer,
                   readData, spi>>
C3_RetryAborts ==
    /\ [][(phase = "run" /\ retry > maxRetries) => (EnvOnly \/ C3_Abort)]_vars
    /\ [](failStreak <= maxRetries + 1)
C3_Witness ==
    /\ resetKind = "fatal"
    /\ formatBuffer[1] = "ERROR: Operation %d failed after %d retries"
    /\ failStreak = maxRetries + 1
    /\ state = "WritingUpgrade"

EndsWith(ops, tail) ==
    /\ Len(ops) >= Len(tail)
    /\ SubSeq(ops, Len(ops) - Len(tail) + 1, Len(ops)) = tail
CrcMatchesNow ==
    CRC16(FlashBytes(flash, verifyRequest.firmwareLength), verifyRequest.firmwareLength)
        = verifyRequest.crc16
C5_ChecksumGuardsLock ==
    (viaSpi /\ (phase = "run" \/ resetKind = "success")) =>
        /\ (state \in {"SendingChecksumOK", "LockingFlash"})
              => (CrcMatchesNow /\ writeData0 = 12 /\ crcSeen[1] = crcSeen[2])
        /\ state = "SendingChecksumError"
              => (~CrcMatchesNow /\ writeData0 = 255 /\ crcSeen[1] # crcSeen[2])
        /\ writeData0 = 12 => state \in {"SendingChecksumOK", "LockingFlash"}
        /\ writeData0 # 12 => state \notin {"SendingChecksumOK", "LockingFlash"}
C5_Witness ==
    /\ viaSpi /\ resetKind = "success" /\ writeData0 = 12
    /\ <<"VerifyingChecksum", "SendingChecksumError">> \in edges

\* C6: when the failure acknowledgement completes the cursor is back at the
\* region start, retry is 0 and the state is WritingUpgrade; and a lock is only
\* attempted after every page from the region start to the end of the image
\* sent again has been written and verified.
PagesFrom(a, n) == { q \in a .. (a + n - 1) : (q - a) % pageSize = 0 }
C6_AfterMismatch ==
    (state = "SendingChecksumError" /\ phase' = "run" /\ state' # state) =>
        /\ state' = "WritingUpgrade" /\ flashPos' = FirmwareFlashStart
        /\ retry' = 0 /\ ~haveDataInBuffer' /\ passPages' = {}
C6_RewrittenBeforeLock ==
    (viaSpi /\ state = "LockingFlash"
        /\ <<"SendingChecksumError", "WritingUpgrade">> \in edges) =>
        passPages = PagesFrom(FirmwareFlashStart, (hostSent + 1) * blockReadSize)
C6_MismatchRewrites ==
    [][C6_AfterMismatch]_vars /\ []C6_RewrittenBeforeLock
C6_Witness ==
    /\ viaSpi /\ state = "LockingFlash" /\ hostSent = 2
    /\ <<"SendingChecksumError", "WritingUpgrade">> \in edges

\* C7: every page unlock, sector erase, page write and page lock is at a
\* page-aligned address inside [start, end).
CursorOps == {"unlock", "erase", "write", "lock"}
C7_CursorInRegion ==
    \A i \in 1..Len(lastOps) :
        lastOps[i].op \in CursorOps =>
            /\ lastOps[i].addr % pageSize = 0
            /\ lastOps[i].addr >= FirmwareFlashStart
            /\ lastOps[i].addr < FirmwareFlashEnd

\* C8: in ErasingFlash a sector that reads erased is passed without a call of
\* the hardware erase: the cursor advances by the sector size.
C8_Step ==
    (Running("ErasingFlash") /\ IsSectorErased(flash, flashPos, SectorSizeAt(flashPos))
        /\ sbcGone' = sbcGone) =>
        /\ lastOps' = <<>>
        /\ flash' = flash
        /\ retry' = 0
        /\ flashPos' = IF flashPos + SectorSizeAt(flashPos) >= FirmwareFlashEnd
                       THEN FirmwareFlashStart ELSE flashPos + SectorSizeAt(flashPos)
C8_ErasedSectorSkipped == [][C8_Step]_vars
C8_Witness ==
    /\ state = "ErasingFlash" /\ lastOps = <<>> /\ flashPos > FirmwareFlashStart
    /\ \E a \in Region : flash[a] # Erased

\* C9: retry is 0 after every call whose step succeeded.
C9_RetryZeroAfterSuccess == (phase = "run" /\ stepResult = "ok") => retry = 0

\* C10 as claimed: before the fatal abort retry never exceeds maxRetries.
C10_NeverAboveMax == phase = "run" => retry <= maxRetries
\* C10 amended: retry never exceeds maxRetries + 1, failures counted inside the
\* file block source included; it holds maxRetries + 1 only from the failing
\* call to the next call of writeBinary, which aborts.
C10_RetryBound ==
    /\ retry <= maxRetries + 1
    /\ (retry = maxRetries + 1 /\ phase = "halt") => resetKind = "fatal"
C10_Witness ==
    /\ isUf2File /\ retry = maxRetries + 1 /\ state = "WritingUpgrade"
    /\ ~haveDataInBuffer /\ ~hwFailed /\ resetKind = "fatal"

\* C11: the percentage ShowProgress computes never decreases over a run, and a
\* progress message is emitted at most once for each of the thresholds 20, 40,
\* 60, 80, 100: never twice for one threshold, never more than five times.
ProgressThresholds == {20, 40, 60, 80, 100}
C11_MessagesBounded ==
    /\ Len(progressMsgs) <= 5
    /\ \A i \in 1..Len(progressMsgs) : progressMsgs[i] \in ProgressThresholds
    /\ \A i, j \in 1..Len(progressMsgs) : i # j => progressMsgs[i] # progressMsgs[j]
C11_ProgressMonotone ==
    /\ [][percentSeen' >= percentSeen]_vars
    /\ []C11_MessagesBounded

\* C12: a block ReadBlockUf2 has delivered holds the payloads of the records of
\* its place in the file, in file order, then 0xFF to the end of the block when
\* the file ends inside it; bytesRead is the number of payload bytes copied.
Uf2Records == firmwareFileSize \div Uf2RecordSize
\* the records before the block at flash address a, and those inside it
Uf2Before(a) == (a - FirmwareFlashStart) \div Uf2Payload
Uf2Inside(a) == Min(blockReadSize \div Uf2Payload, Uf2Records - Uf2Before(a))
Uf2Expected(a) ==
    [i \in 1..blockReadSize |->
        IF (i - 1) \div Uf2Payload < Uf2Inside(a)
        THEN file.recs[Uf2Before(a) + ((i - 1) \div Uf2Payload) + 1].data[((i - 1) % Uf2Payload) + 1]
        ELSE Erased]
C12_Uf2BlockIsPayloads ==
    (isUf2File /\ haveDataInBuffer) =>
        /\ readData = Uf2Expected(flashPos - bytesWritten)
        /\ bytesRead = Uf2Inside(flashPos - bytesWritten) * Uf2Payload
C12_Witness ==
    /\ isUf2File /\ haveDataInBuffer /\ phase = "run"
    /\ bytesRead > 0 /\ bytesRead < blockReadSize
    /\ flashPos > FirmwareFlashStart + blockReadSize

\* C13: a UF2 record with a wrong magic, target address or payload size ends
\* the run in the step that reads it: fatal abort, retry not incremented, the
\* cursor never enters the block of that record and no page of it is written.
Uf2Errors == { "ERROR: bad UF2 block at offset %u",
               "ERROR: unexpected data in UF2 block at offset %u" }
Uf2RecOk(k) ==
    /\ ~(\/ file.recs[k].magicStart0 # MagicStart0Val
         \/ file.recs[k].magicStart1 # MagicStart1Val
         \/ file.recs[k].magicEnd # MagicEndVal)
    /\ file.recs[k].targetAddr = FirmwareFlashStart + (k - 1) * Uf2Payload
    /\ file.recs[k].payloadSize = Uf2Payload
\* the flash address of the block record k belongs to
Uf2BlockOf(k) ==
    FirmwareFlashStart + (((k - 1) * Uf2Payload) \div blockReadSize) * blockReadSize
\* the operations of the last step without those of Reset
StepOps ==
    IF resetKind = "fatal"
    THEN SubSeq(lastOps, 1, Len(lastOps) - Len(ResetOps(state)))
    ELSE lastOps
C13_Step ==
    (formatBuffer'[1] \in Uf2Errors /\ formatBuffer[1] \notin Uf2Errors) =>
        /\ phase' = "halt" /\ resetKind' = "fatal"
        /\ retry' = retry /\ flashPos' = flashPos /\ state' = state
        /\ stepResult' = "none"
C13_NoWrite ==
    isUf2File =>
        \A k \in 1..Len(file.recs) :
            ~Uf2RecOk(k) =>
                /\ state = "WritingUpgrade" => flashPos <= Uf2BlockOf(k)
                /\ state \notin {"LockingFlash"} \cup ChecksumStates
                /\ haveDataInBuffer => flashPos - bytesWritten < Uf2BlockOf(k)
                /\ \A i \in 1..Len(StepOps) :
                      StepOps[i].op = "write" => StepOps[i].addr < Uf2BlockOf(k)
C13_BadRecordAborts == [][C13_Step]_vars /\ []C13_NoWrite
C13_Witness ==
    /\ isUf2File /\ resetKind = "fatal"
    /\ formatBuffer = Msg("ERROR: unexpected data in UF2 block at offset %u", <<2>>)
    /\ retry = 0 /\ persisted # <<>>

\* C14: CRC16 is the reflected CRC computed bit by bit with polynomial 0xA001
\* (40961) from the initial value 0xFFFF, bytes in order, no final XOR; of the
\* empty sequence it is 0xFFFF.
RefShift(crc) == IF crc % 2 = 1 THEN BitXor(crc \div 2, 40961) ELSE crc \div 2
RECURSIVE RefBits(_, _)
RefBits(crc, n) == IF n = 0 THEN crc ELSE RefBits(RefShift(crc), n - 1)
RECURSIVE RefCrc(_, _, _)
RefCrc(crc, buffer, i) ==
    IF i > Len(buffer) THEN crc
    ELSE RefCrc(RefBits(BitXor(crc, buffer[i]), 8), buffer, i + 1)
C14_Crc16IsReflectedA001 ==
    crcResult # -1 =>
        /\ crcResult = RefCrc(65535, crcBuffer, 1)
        /\ crcBuffer = <<>> => crcResult = 65535
C14_Witness == crcResult # -1 /\ crcResult # 65535 /\ Len(crcBuffer) = MaxCrcLen

\* C15: a state that waits for a transfer of the SBC is left, or the wait ends,
\* once the transfer timeout has passed without the transfer completing: the
\* call made then leaves the waiting state, and no run waits forever.
WaitStates == {"WritingUpgrade"} \cup ChecksumStates
Waiting(st) ==
    /\ viaSpi /\ phase = "run" /\ state = st
    /\ transferPending /\ ~haveDataInBuffer
C15_Step ==
    \A st \in WaitStates :
        (Waiting(st) /\ ~dataReceived /\ elapsed > TransferTimeout
            /\ ~RetryLimitHit(retry) /\ ~EnvOnly) => ~Waiting(st)'
C15_Bounded == \A st \in WaitStates : Waiting(st) => elapsed <= TransferTimeout + 1
C15_WaitsEnd ==
    /\ [][C15_Step]_vars
    /\ []C15_Bounded
    /\ []<>(\A st \in WaitStates : ~Waiting(st))
C15_Witness ==
    /\ viaSpi /\ resetKind = "fatal" /\ sbcGone # <<>>
    /\ formatBuffer = Msg("Timeout while waiting for checksum", <<>>)
    /\ elapsed > TransferTimeout

\* C16 as claimed: once the SBC has stopped completing transfers, in a state
\* that waits for it and after a block was written, the machine never reaches
\* LockingFlash or the success reboot.
SbcLeftWaiting ==
    /\ sbcGone # <<>>
    /\ sbcGone[1] \in WaitStates
    /\ sbcGone[2]
C16_NeverLocksWithoutHost ==
    SbcLeftWaiting => (state # "LockingFlash" /\ resetKind # "success")
\* C16 amended: if the SBC stops before its checksum record has arrived, the
\* run ends in a fatal abort and never reaches LockingFlash; LockingFlash is
\* reached only after a checksum record matched.  The acknowledgement that
\* follows is not needed: when it times out the machine locks and reboots.
\* Where the cursor has not left the region start, or in the checksum states,
\* the first step of the main loop after the timeout is the fatal abort.
SbcLeftBeforeChecksum ==
    /\ sbcGone # <<>>
    /\ sbcGone[1] \notin {"SendingChecksumOK", "LockingFlash"}
    /\ ~sbcGone[3]
C16_Safe ==
    /\ SbcLeftBeforeChecksum => (state # "LockingFlash" /\ resetKind # "success")
    /\ (viaSpi /\ state = "LockingFlash") => (crcSeen # <<>> /\ crcSeen[1] = crcSeen[2])
C16_Step ==
    (/\ SbcLeftBeforeChecksum /\ viaSpi /\ Running(state)
     /\ transferPending /\ ~haveDataInBuffer /\ ~dataReceived
     /\ elapsed > TransferTimeout
     /\ state = "WritingUpgrade" => flashPos = FirmwareFlashStart
     /\ ~EnvOnly) => (phase' = "halt" /\ resetKind' = "fatal")
C16_AbortsWithoutChecksum ==
    /\ []C16_Safe
    /\ [][C16_Step]_vars
    /\ SbcLeftBeforeChecksum ~> (resetKind = "fatal")
C16_Witness ==
    /\ sbcGone # <<>> /\ sbcGone[1] = "WritingUpgrade" /\ sbcGone[2] /\ ~sbcGone[3]
    /\ resetKind = "fatal"
    /\ formatBuffer = Msg("Timeout while waiting for checksum", <<>>)

\* C17 as claimed: every checksum mismatch found in VerifyingChecksum adds one
\* to the retry counter, so a mismatch that persists runs into the retry limit.
C17_MismatchStep ==
    (state = "VerifyingChecksum" /\ state' = "SendingChecksumError") => retry' = retry + 1
C17_MismatchCounts == [][C17_MismatchStep]_vars

\* A step of the main loop that meets an expired block transfer while the
\* cursor is still at the start of the region.
BlockTimeoutAtStart ==
    /\ viaSpi /\ Running("WritingUpgrade")
    /\ ~haveDataInBuffer /\ transferPending /\ ~is_spi_transfer_complete
    /\ flashPos = FirmwareFlashStart
    /\ TimedOut(elapsed)
    /\ ~EnvOnly
\* C18 as claimed: such a timeout is recoverable; it adds one to the retry
\* counter and the machine stays in WritingUpgrade to try the transfer again.
C18_TimeoutRetriesStep ==
    BlockTimeoutAtStart =>
        (retry' = retry + 1 /\ phase' = "run" /\ state' = "WritingUpgrade")
C18_TimeoutAtStartRetries == [][C18_TimeoutRetriesStep]_vars
\* C18 amended: a block-transfer timeout with the cursor at the start of the
\* region is fatal at once: the step reports "ERROR: Timeout while waiting for
\* response" and halts with a fatal reset; the retry counter and the cursor are
\* left as they were and no further transfer is attempted.
C18_TimeoutFatalStep ==
    BlockTimeoutAtStart =>
        /\ phase' = "halt" /\ resetKind' = "fatal"
        /\ formatBuffer' = Msg("ERROR: Timeout while waiting for response", <<>>)
        /\ UNCHANGED <<retry, flashPos, state, spi>>
C18_TimeoutAtStartFatal == [][C18_TimeoutFatalStep]_vars
C18_Witness ==
    /\ viaSpi /\ phase = "halt" /\ resetKind = "fatal"
    /\ formatBuffer = Msg("ERROR: Timeout while waiting for response", <<>>)
    /\ flashPos = FirmwareFlashStart /\ retry = 0 /\ bytesWritten = 0
    /\ elapsed > TransferTimeout

\* C19: a WritingUpgrade step with a block in the buffer moves the cursor and
\* the write offset on by pageSize exactly when the hardware write reported
\* success and the flash page equals the buffer page; otherwise the cursor,
\* the offset, the buffered block and the state stay and retry grows by one.
C19_Step ==
    (Running("WritingUpgrade") /\ haveDataInBuffer /\ ~EnvOnly) =>
        LET page == [i \in 1..pageSize |-> readData[bytesWritten + i]]
            equal == \A i \in 1..pageSize : flash'[flashPos + i - 1] = page[i]
        IN  /\ lastWrite' \in {"ok", "fail", "differs"}
            /\ InRegion(flashPos, pageSize) =>
                   /\ lastWrite' = "ok" => equal
                   /\ lastWrite' = "differs" => ~equal
            /\ IF lastWrite' = "ok"
               THEN /\ flashPos' = flashPos + pageSize
                    /\ bytesWritten' = bytesWritten + pageSize
               ELSE /\ UNCHANGED <<flashPos, bytesWritten, readData, haveDataInBuffer, state>>
                    /\ retry' = retry + 1
C19_AdvanceIffVerified == [][C19_Step]_vars
C19_Witness ==
    /\ state = "WritingUpgrade" /\ phase = "run" /\ haveDataInBuffer
    /\ lastWrite = "differs"
    /\ bytesWritten = pageSize /\ retry = 1
    /\ flashPos = FirmwareFlashStart + blockReadSize + pageSize

\* The first addresses of the sectors of the firmware region: uniform erase
\* regions on the SAME5x; two small, one middle, then large sectors otherwise.
SectorStarts ==
    IF chip = "SAME5x"
    THEN { a \in Region : (a - IFLASH_ADDR) % EraseRegionSize = 0 }
    ELSE {IFLASH_ADDR, IFLASH_ADDR + SmallSector, IFLASH_ADDR + 2 * SmallSector}
         \cup { IFLASH_ADDR + 2 * SmallSector + MidSector + k * LargeSector :
                  k \in 0 .. (LargeSectors - 1) }
ReadsErased(f, addr, n) == \A a \in addr .. (addr + n - 1) : a \in DOMAIN f /\ f[a] = Erased
\* C20: ErasingFlash moves past a sector only when the sector reads erased
\* after the step; the cursor is always at the first address of a sector, with
\* everything below it erased; and the step into WritingUpgrade leaves the
\* cursor at the region start, no block buffered and the whole region erased.
C20_Step ==
    (Running("ErasingFlash") /\ ~EnvOnly) =>
        LET sectorSize == SectorSizeAt(flashPos)
            erasedNow == ReadsErased(flash', flashPos, sectorSize)
        IN  /\ IF erasedNow
               THEN /\ retry' = 0
                    /\ \/ state' = "ErasingFlash" /\ flashPos' = flashPos + sectorSize
                       \/ /\ state' = "WritingUpgrade"
                          /\ flashPos + sectorSize >= FirmwareFlashEnd
               ELSE /\ UNCHANGED <<flashPos, state>>
                    /\ retry' = retry + 1
            /\ state' = "WritingUpgrade" =>
                   /\ flashPos' = FirmwareFlashStart
                   /\ ~haveDataInBuffer'
                   /\ ReadsErased(flash', FirmwareFlashStart, Capacity)
C20_AtSector ==
    (state = "ErasingFlash" /\ phase = "run") =>
        /\ flashPos \in SectorStarts
        /\ HwSector(flashPos) = <<flashPos, SectorSizeAt(flashPos)>>
        /\ ReadsErased(flash, FirmwareFlashStart, flashPos - FirmwareFlashStart)
C20_ErasedBeforeWriting == [][C20_Step]_vars /\ []C20_AtSector
C20_Witness ==
    /\ state = "WritingUpgrade" /\ phase = "run"
    /\ lastOps = <<Op("erase", FirmwareFlashEnd - SectorSizeAt(FirmwareFlashEnd - 1),
                      SectorSizeAt(FirmwareFlashEnd - 1))>>
    /\ flashPos = FirmwareFlashStart /\ ~haveDataInBuffer /\ retry = 0
    /\ hwFailed
    /\ ReadsErased(flash, FirmwareFlashStart, Capacity)

\* a step of WritingUpgrade that issues a page write inside the region
PageWriteIssued ==
    /\ Running("WritingUpgrade") /\ ~EnvOnly
    /\ lastWrite' # "none"
    /\ InRegion(flashPos, pageSize)
\* C21 as claimed, for the passes it names: on a pass that follows a checksum
\* mismatch, the first write to each page goes to a page that reads erased
\* just before the write.
C21_SecondPassStep ==
    (PageWriteIssued /\ crcSeen # <<>> /\ crcSeen[1] # crcSeen[2]
        /\ (haveDataInBuffer => retry = 0))
    => ReadsErased(flash, flashPos, pageSize)
C21_SecondPassErased == [][C21_SecondPassStep]_vars

\* the flash no longer holds what any old firmware left there: the hardware
\* has erased a sector or written a page
RegionChanged == \A k \in 0..3 : flash # InitFlash(k)
\* C22 as claimed: after a fatal abort that follows a change of the firmware
\* region, the device starts from the bootloader, also when the abort happens
\* in ErasingFlash (stated for the builds that select the boot mode in Reset).
C22_FatalBootsRecovery ==
    (resetKind = "fatal" /\ chip # "SAME5x" /\ RegionChanged) => bootFromBootloader

\* C23 as claimed: on the builds that lock page by page, when the success
\* reboot is triggered no page of the firmware region is left unlocked.
C23_AllLockedAtSuccess ==
    (resetKind = "success" /\ chip # "SAME5x") =>
        unlocked \cap PagesOf(FirmwareFlashStart, Capacity) = {}

\* C24: from SendingChecksumOK the machine goes to LockingFlash and nowhere
\* else: the state is left only for LockingFlash, only when the
\* acknowledgement transfer has completed or timed out, never by a fatal
\* abort; and with the main loop and the clock running it is always left.
C24_Step ==
    (state = "SendingChecksumOK") =>
        /\ state' \in {"SendingChecksumOK", "LockingFlash"}
        /\ phase' = "run" /\ resetKind' = resetKind
        /\ state' = "LockingFlash" =>
               /\ elapsed > TransferTimeout \/ is_spi_transfer_complete
               /\ UNCHANGED <<flashPos, retry, flash>>
C24_InState == (state = "SendingChecksumOK") => (phase = "run" /\ retry = 0)
C24_OnlyToLocking ==
    /\ [][C24_Step]_vars
    /\ []C24_InState
    /\ (state = "SendingChecksumOK") ~> (state = "LockingFlash")
C24_Witness ==
    /\ state = "LockingFlash" /\ phase = "run"
    /\ <<"SendingChecksumOK", "LockingFlash">> \in edges
    /\ sbcGone # <<>> /\ sbcGone[1] = "SendingChecksumOK"
    /\ formatBuffer = Msg("Timeout while exchanging checksum acknowledgement", <<>>)

\* C25 as claimed: the offset in the diagnostic of a rejected UF2 record is the
\* offset in the file at which that record starts.
C25_OffsetIsRecordStart ==
    (isUf2File /\ resetKind = "fatal" /\ formatBuffer[1] \in Uf2Errors) =>
        \E k \in 1..Len(file.recs) :
            /\ ~Uf2RecOk(k)
            /\ formatBuffer[2] = (k - 1) * Uf2RecordSize

\* C26 as claimed: a completion that SBC_SPI_HANDLER has signalled for the
\* armed transfer is not lost, whatever the interleaving of the handler with
\* setup_spi: once setup_spi has returned, the poll finds it.
C26_CompletionNotLost ==
    (setupPc = "idle" /\ transferPending /\ handlerSet) => is_spi_transfer_complete

\* C27 as claimed: whenever VerifyingChecksum computes the CRC, the range
\* [start, start + firmwareLength) it reads ends at or below the cursor, hence
\* inside the firmware region.
C27_Step ==
    (state = "VerifyingChecksum" /\ state' \in {"SendingChecksumOK", "SendingChecksumError"})
    => /\ FirmwareFlashStart + verifyRequest.firmwareLength <= flashPos
       /\ FirmwareFlashStart + verifyRequest.firmwareLength <= FirmwareFlashEnd
C27_CrcRangeWritten == [][C27_Step]_vars

====
